---- MODULE Spec2Model ----
(***************************************************************************)
(* A model of the Wordle helper (wordle.py) and its game simulator         *)
(* (simulator.py).                                                         *)
(*                                                                         *)
(* Representation.                                                         *)
(*   - a letter is a one-character string; "" is Python's '' (an unknown   *)
(*     fixed slot);                                                        *)
(*   - a word is a sequence of letters; fixed is a sequence of letters     *)
(*     or "";                                                              *)
(*   - present[i] is a Python string that the code only ever iterates,     *)
(*     tests with `in` and converts with set(): it is modelled by the set  *)
(*     of its letters;                                                     *)
(*   - words is a Python set: the model keeps it as a sequence without     *)
(*     repetitions, the set's iteration order, which is arbitrary and so   *)
(*     chosen nondeterministically;                                        *)
(*   - a float score is kept as the exact fraction [num, den] the code     *)
(*     divides; fractions are compared by cross multiplication (float      *)
(*     division is monotone, so the order of scores is the same).          *)
(*   - None is NoWord where a word is expected and NoRound where a round   *)
(*     number is; an exception is a value of the err field / variable.     *)
(***************************************************************************)
EXTENDS Integers, Sequences, FiniteSets

VARIABLES
  words,          \* the word table, in its iteration order
  freqs,          \* letter -> counts, index 0 the total, index p position p
  stats,          \* word -> statistic, a partial function (dict)
  guess_thres,    \* the commit threshold, a fraction
  fixed,          \* the greens
  present,        \* the yellows, per position
  absent,         \* the grays
  fixed_addition, \* add_fixed's second argument
  new_fixed,      \* the fixed delta / add_fixed's result
  new_present,    \* the present delta of the last round
  new_absent,     \* the absent delta of the last round
  answer,         \* simulate_game's answer
  answers,        \* main's list of answers
  answer_num,     \* main's position in answers (0 before the first game)
  rounds,         \* main's Counter of returned round numbers
  guess1,         \* the forced first guess, or NoWord
  max_rounds,     \* the round limit, or NoRound
  round,          \* simulate_game's round counter
  guess,          \* the guess of the current round
  guesses,        \* the guesses simulate_game has made so far, in order
  result,         \* what choose_words returned (its guesses dict)
  ret,            \* what simulate_game returned
  err,            \* the exception raised, or "none"
  scored_word,    \* the word given to score_letter_freqs
  score,          \* what score_letter_freqs returned
  pc              \* the position in the modelled routine

vars == <<words, freqs, stats, guess_thres, fixed, present, absent,
          fixed_addition, new_fixed, new_present, new_absent, answer, answers,
          answer_num, rounds, guess1, max_rounds, round, guess, guesses,
          result, ret, err, scored_word, score, pc>>

\* Python's None (and the falsy '') where a word is expected.
NoWord == <<>>

\* Python's None where a round number is expected.
NoRound == [is_none |-> TRUE, value |-> 0]

Round(n) == [is_none |-> FALSE, value |-> n]

(***************************************************************************)
(* Input domains                                                           *)
(***************************************************************************)

\* The letters the model draws words from (a part of string.ascii_lowercase).
LetterOrder == <<"a", "b", "c">>

Letters == {LetterOrder[i] : i \in 1..Len(LetterOrder)}

\* The word lists read by read_wordlist: the session has one of them.
Dictionaries ==
  {{<<"a", "b">>, <<"b", "a">>, <<"c", "c">>},
   {<<"a", "b">>, <<"a", "c">>, <<"a", "a">>}}

\* The length of the words of the session (len(answers[0]), len(answer)).
WordLen == Len(CHOOSE w \in UNION Dictionaries : TRUE)

Positions == 1..WordLen

AllWords == [Positions -> Letters]

\* The largest statistic of a word in the stats table.
MaxStat == 1

\* The largest number of letters known (fixed, present or absent) when
\* choose_words is asked for a guess.
MaxFacts == 3

\* The largest round limit given to simulate_game.
MaxRoundLimit == 2

\* The guard on simulate_game's round counter.
RoundCap == 6

\* The longest list of answers given to main.
MaxAnswers == 2

\* The number of rounds whose guess is given from outside, in the game driven
\* by any guesses.
MaxGiven == 2

\* The largest count in a frequency table read from a file.
MaxCount == 1

Thresholds == {[num |-> 0, den |-> 1], [num |-> 1, den |-> 2], [num |-> 2, den |-> 1]}

EmptyFixed == [i \in Positions |-> ""]

EmptyPresent == [i \in Positions |-> {}]

FixedSeqs(n) == [1..n -> Letters \cup {""}]

PresentSeqs == [Positions -> SUBSET Letters]

\* The iteration orders of a set S of words.
Orders(S) == {s \in [1..Cardinality(S) -> S] : \A i, j \in 1..Cardinality(S) : i # j => s[i] # s[j]}

\* The stats tables: word -> statistic > 0, for some of the words of D.
StatsTables(D) == UNION {[S -> 1..MaxStat] : S \in SUBSET D}

\* get-letter-freqs.py, unweighted: counts[0] the letter's occurrences in the
\* word list, counts[p] its occurrences at position p.
LetterFreqs(wordlist) ==
  [letter \in Letters |->
     [p \in 0..WordLen |->
        IF p = 0
        THEN Cardinality({<<w, q>> \in wordlist \X Positions : w[q] = letter})
        ELSE Cardinality({w \in wordlist : w[p] = letter})]]

(***************************************************************************)
(* Helpers for Python's built-ins                                          *)
(***************************************************************************)

\* letter in word
InWord(letter, word) == \E i \in 1..Len(word) : word[i] = letter

\* set(''.join(fixed)): the letters of a fixed sequence
FixedLetters(f) == {f[i] : i \in 1..Len(f)} \ {""}

\* set(''.join(present)): the letters of a present sequence
PresentLetters(p) == UNION {p[i] : i \in 1..Len(p)}

\* x > y for fractions with positive denominators
FracGt(x, y) == x.num * y.den > y.num * x.den

\* x >= y for fractions with positive denominators
FracGe(x, y) == x.num * y.den >= y.num * x.den

\* sorted(s, key, reverse=True), keys[i] the key of s[i]: a stable sort,
\* descending. The element at index i goes behind every element of a greater
\* key and behind the earlier elements of an equal key.
SortedPos(keys, i) ==
  1 + Cardinality({j \in 1..Len(keys) : FracGt(keys[j], keys[i])})
    + Cardinality({j \in 1..(i - 1) : ~FracGt(keys[j], keys[i]) /\ ~FracGt(keys[i], keys[j])})

SortedDesc(s, keys) ==
  [k \in 1..Len(s) |-> s[CHOOSE i \in 1..Len(s) : SortedPos(keys, i) = k]]

\* sorted(s, key) without reverse=True: a stable sort, ascending.
SortedAsc(s, keys) ==
  [k \in 1..Len(s) |->
     s[CHOOSE i \in 1..Len(s) :
         k = 1 + Cardinality({j \in 1..Len(keys) : FracGt(keys[i], keys[j])})
               + Cardinality({j \in 1..(i - 1) :
                                ~FracGt(keys[j], keys[i]) /\ ~FracGt(keys[i], keys[j])})]]

RECURSIVE SumSeq(_)
SumSeq(s) == IF s = <<>> THEN 0 ELSE s[1] + SumSeq(Tail(s))

RECURSIVE Pow10(_)
Pow10(n) == IF n = 0 THEN 1 ELSE 10 * Pow10(n - 1)

(***************************************************************************)
(* wordle.py                                                               *)
(***************************************************************************)

\* is_candidate with the test of the excluded position left out.
is_candidate_NoPlace(word, fixed_, present_, absent_) ==
  /\ \A i \in 1..Len(fixed_) : ~(fixed_[i] # "" /\ word[i] # fixed_[i])
  /\ \A place \in 1..Len(present_) :
       \A letter \in present_[place] : InWord(letter, word)
  /\ \A letter \in absent_ : ~InWord(letter, word)

\* is_candidate: each loop returns False at its first failure, True at the end.
is_candidate(word, fixed_, present_, absent_) ==
  /\ \A i \in 1..Len(fixed_) : ~(fixed_[i] # "" /\ word[i] # fixed_[i])
  /\ \A place \in 1..Len(present_) :
       /\ \A letter \in present_[place] : InWord(letter, word)
       /\ ~(word[place] \in present_[place])
  /\ \A letter \in absent_ : ~InWord(letter, word)

\* score_letter_freqs without the division by 10**repeats.
score_letter_freqs_NoPenalty(word, freqs_) ==
  [num |-> SumSeq([p \in 1..Len(word) |-> freqs_[word[p]][p]]), den |-> 1]

\* score_letter_freqs: score / 10**repeats as a fraction.
score_letter_freqs(word, freqs_) ==
  LET repeats == Cardinality({p \in 1..Len(word) : \E q \in 1..(p - 1) : word[q] = word[p]})
      total == SumSeq([p \in 1..Len(word) |-> freqs_[word[p]][p]])
  IN [num |-> total, den |-> Pow10(repeats)]

RECURSIVE FilterCandidates(_, _, _, _)
FilterCandidates(ws, fixed_, present_, absent_) ==
  IF ws = <<>> THEN <<>>
  ELSE IF is_candidate(Head(ws), fixed_, present_, absent_)
       THEN <<Head(ws)>> \o FilterCandidates(Tail(ws), fixed_, present_, absent_)
       ELSE FilterCandidates(Tail(ws), fixed_, present_, absent_)

\* get_candidates: the words that pass is_candidate, in iteration order, then
\* sorted by score_letter_freqs, highest first.
get_candidates(words_, freqs_, fixed_, present_, absent_) ==
  LET candidates == FilterCandidates(words_, fixed_, present_, absent_)
  IN SortedDesc(candidates,
                [i \in 1..Len(candidates) |-> score_letter_freqs(candidates[i], freqs_)])

\* word_stats.get(word, 0)
StatGet(word_stats, word) == IF word \in DOMAIN word_stats THEN word_stats[word] ELSE 0

\* score_guesses: raw_stat/total for each candidate, or 0 for each when the
\* total is 0.
score_guesses(candidates, word_stats) ==
  LET raw_stats == [i \in 1..Len(candidates) |-> StatGet(word_stats, candidates[i])]
      total == SumSeq(raw_stats)
  IN IF total = 0
     THEN [i \in 1..Len(candidates) |-> [num |-> 0, den |-> 1]]
     ELSE [i \in 1..Len(candidates) |-> [num |-> raw_stats[i], den |-> total]]

\* get_answer_guesses with an ascending sort.
get_answer_guesses_Ascending(candidates, stats_) ==
  LET weighted_stats == score_guesses(candidates, stats_)
      zipped == [i \in 1..Len(candidates) |-> [word |-> candidates[i], stat |-> weighted_stats[i]]]
  IN SortedAsc(zipped, weighted_stats)

\* get_answer_guesses: the (word, stat) pairs sorted by stat, highest first.
get_answer_guesses(candidates, stats_) ==
  LET weighted_stats == score_guesses(candidates, stats_)
      zipped == [i \in 1..Len(candidates) |-> [word |-> candidates[i], stat |-> weighted_stats[i]]]
  IN SortedDesc(zipped, weighted_stats)

\* get_new_candidates that filters by the caller's absent set only.
get_new_candidates_KeepKnown(candidates, words_, freqs_, fixed_, present_, absent_) ==
  LET new_fixed_ == [i \in 1..Len(fixed_) |-> ""]
      new_present_ == [i \in 1..Len(fixed_) |-> {}]
  IN get_candidates(words_, freqs_, new_fixed_, new_present_, absent_)

\* get_new_candidates: the words without any letter known so far. When fixed
\* and present are all empty it returns the candidates it was given.
get_new_candidates(candidates, words_, freqs_, fixed_, present_, absent_) ==
  LET new_absent_ == absent_ \cup FixedLetters(fixed_) \cup PresentLetters(present_)
      new_fixed_ == [i \in 1..Len(fixed_) |-> ""]
      new_present_ == [i \in 1..Len(fixed_) |-> {}]
  IN IF new_fixed_ = fixed_ /\ new_present_ = present_
     THEN candidates
     ELSE get_candidates(words_, freqs_, new_fixed_, new_present_, new_absent_)

\* choose_words raising when the list of new candidates is empty.
choose_words_WrongList(words_, freqs_, stats_, fixed_, present_, absent_, thres) ==
  LET candidates == get_candidates(words_, freqs_, fixed_, present_, absent_)
      answer_guesses == get_answer_guesses(candidates, stats_)
      new_candidates ==
        get_new_candidates(candidates, words_, freqs_, fixed_, present_, absent_)
  IN IF new_candidates = <<>>
     THEN [err |-> "no_candidates", choice |-> NoWord, answers |-> answer_guesses,
           excluders |-> <<>>, candidates |-> candidates]
     ELSE [err |-> "none",
           choice |-> IF answer_guesses # <<>> /\ FracGe(answer_guesses[1].stat, thres)
                      THEN answer_guesses[1].word
                      ELSE new_candidates[1],
           answers |-> answer_guesses,
           excluders |-> new_candidates,
           candidates |-> candidates]

\* choose_words: the guesses dict, or the no-candidates WordleError.
choose_words(words_, freqs_, stats_, fixed_, present_, absent_, thres) ==
  LET candidates == get_candidates(words_, freqs_, fixed_, present_, absent_)
      answer_guesses == get_answer_guesses(candidates, stats_)
      answer_choice ==
        IF answer_guesses # <<>> /\ FracGe(answer_guesses[1].stat, thres)
        THEN answer_guesses[1].word
        ELSE NoWord
  IN IF candidates = <<>>
     THEN [err |-> "no_candidates", choice |-> NoWord, answers |-> answer_guesses,
           excluders |-> <<>>, candidates |-> candidates]
     ELSE LET new_candidates ==
                get_new_candidates(candidates, words_, freqs_, fixed_, present_, absent_)
          IN [err |-> "none",
              choice |-> IF answer_choice # NoWord THEN answer_choice
                         ELSE IF new_candidates # <<>> THEN new_candidates[1]
                         ELSE candidates[1],
              answers |-> answer_guesses,
              excluders |-> new_candidates,
              candidates |-> candidates]

\* choose_word: results['choice'], or the error choose_words raised.
choose_word(words_, freqs_, stats_, fixed_, present_, absent_, thres) ==
  LET results == choose_words(words_, freqs_, stats_, fixed_, present_, absent_, thres)
  IN [err |-> results.err, choice |-> results.choice]

\* The loop of add_fixed from index i on: the first conflict raises, with
\* new_fixed_ as far as it was written.
RECURSIVE AddFixedLoop(_, _, _, _)
AddFixedLoop(i, fixed_, addition, new_fixed_) ==
  IF i > Len(addition)
  THEN [err |-> "none", new_fixed |-> new_fixed_]
  ELSE IF addition[i] # ""
       THEN IF fixed_[i] # "" /\ addition[i] # fixed_[i]
            THEN [err |-> "conflict", new_fixed |-> new_fixed_]
            ELSE AddFixedLoop(i + 1, fixed_, addition, [new_fixed_ EXCEPT ![i] = addition[i]])
       ELSE AddFixedLoop(i + 1, fixed_, addition, new_fixed_)

\* add_fixed writing into fixed itself instead of a copy.
add_fixed_InPlace(fixed_, addition) ==
  IF Len(fixed_) # Len(addition)
  THEN [err |-> "length", value |-> <<>>, fixed_after |-> fixed_, addition_after |-> addition]
  ELSE LET r == AddFixedLoop(1, fixed_, addition, fixed_)
       IN [err |-> r.err,
           value |-> IF r.err = "none" THEN r.new_fixed ELSE <<>>,
           fixed_after |-> r.new_fixed,
           addition_after |-> addition]

\* add_fixed: value is the list returned (when nothing is raised);
\* fixed_after and addition_after are the caller's two lists after the call.
add_fixed(fixed_, addition) ==
  IF Len(fixed_) # Len(addition)
  THEN [err |-> "length", value |-> <<>>, fixed_after |-> fixed_, addition_after |-> addition]
  ELSE LET r == AddFixedLoop(1, fixed_, addition, fixed_)
       IN [err |-> r.err,
           value |-> IF r.err = "none" THEN r.new_fixed ELSE <<>>,
           fixed_after |-> fixed_,
           addition_after |-> addition]

\* add_present that drops the addition.
add_present_KeepOld(present_, present_addition) ==
  IF Len(present_) # Len(present_addition)
  THEN [err |-> "length", value |-> <<>>]
  ELSE [err |-> "none", value |-> present_]

\* add_present excluding the added letters from every position.
add_present_AllPlaces(present_, present_addition) ==
  IF Len(present_) # Len(present_addition)
  THEN [err |-> "length", value |-> <<>>]
  ELSE [err |-> "none",
        value |-> [i \in 1..Len(present_) |-> PresentLetters(present_addition) \cup present_[i]]]

\* add_present: the union of the letters, position by position.
add_present(present_, present_addition) ==
  IF Len(present_) # Len(present_addition)
  THEN [err |-> "length", value |-> <<>>]
  ELSE [err |-> "none",
        value |-> [i \in 1..Len(present_) |-> present_addition[i] \cup present_[i]]]

(***************************************************************************)
(* simulator.py                                                            *)
(***************************************************************************)

\* simulate_round with a letter found at its own place elsewhere in the
\* guess marked absent.
simulate_round_GrayRepeat(answer_, guess_) ==
  LET green(i) == answer_[i] = guess_[i]
      placed(i) == \E j \in 1..Len(guess_) : guess_[j] = guess_[i] /\ green(j)
  IN [fixed |-> [i \in 1..Len(answer_) |-> IF green(i) THEN guess_[i] ELSE ""],
      present |-> [i \in 1..Len(answer_) |->
                     IF ~green(i) /\ InWord(guess_[i], answer_) /\ ~placed(i)
                     THEN {guess_[i]} ELSE {}],
      absent |-> {guess_[i] : i \in {j \in 1..Len(guess_) :
                     ~green(j) /\ (~InWord(guess_[j], answer_) \/ placed(j))}}]

\* simulate_round with `if` for `elif`: a letter in its place is recorded as
\* present there too.
simulate_round_GreenAlsoPresent(answer_, guess_) ==
  [fixed |-> [i \in 1..Len(answer_) |-> IF answer_[i] = guess_[i] THEN guess_[i] ELSE ""],
   present |-> [i \in 1..Len(answer_) |->
                  IF InWord(guess_[i], answer_) THEN {guess_[i]} ELSE {}],
   absent |-> {guess_[i] : i \in {j \in 1..Len(guess_) : ~InWord(guess_[j], answer_)}}]

\* simulate_round with a letter of the answer out of its place recorded as
\* absent too.
simulate_round_YellowAlsoAbsent(answer_, guess_) ==
  [fixed |-> [i \in 1..Len(answer_) |-> IF answer_[i] = guess_[i] THEN guess_[i] ELSE ""],
   present |-> [i \in 1..Len(answer_) |->
                  IF answer_[i] # guess_[i] /\ InWord(guess_[i], answer_)
                  THEN {guess_[i]} ELSE {}],
   absent |-> {guess_[i] : i \in {j \in 1..Len(guess_) : answer_[j] # guess_[j]}}]

\* simulate_round: the deltas of one guess.
simulate_round(answer_, guess_) ==
  [fixed |-> [i \in 1..Len(answer_) |-> IF answer_[i] = guess_[i] THEN guess_[i] ELSE ""],
   present |-> [i \in 1..Len(answer_) |->
                  IF answer_[i] # guess_[i] /\ InWord(guess_[i], answer_)
                  THEN {guess_[i]} ELSE {}],
   absent |-> {guess_[i] : i \in {j \in 1..Len(guess_) :
                  answer_[j] # guess_[j] /\ ~InWord(guess_[j], answer_)}}]

(***************************************************************************)
(* State machines                                                          *)
(***************************************************************************)

NoResult ==
  [err |-> "none", choice |-> NoWord, answers |-> <<>>, excluders |-> <<>>, candidates |-> <<>>]

\* The table of every word, in one iteration order.
AllWordsOrder ==
  LET n == Len(LetterOrder)
      RECURSIVE Pow(_)
      Pow(k) == IF k = 0 THEN 1 ELSE n * Pow(k - 1)
  IN [k \in 1..Pow(WordLen) |->
        [p \in Positions |-> LetterOrder[(((k - 1) \div Pow(WordLen - p)) % n) + 1]]]

\* What is known, as a set of facts: a letter fixed at a position, a letter
\* present and excluded from a position, a letter absent.
Facts == ({"fixed", "present"} \X Positions \X Letters) \cup ({"absent"} \X {0} \X Letters)

FactSets ==
  {F \in SUBSET Facts :
     /\ Cardinality(F) <= MaxFacts
     /\ \A f, g \in F : (f[1] = "fixed" /\ g[1] = "fixed" /\ f[2] = g[2]) => f = g}

FixedOf(F) ==
  [i \in Positions |->
     IF \E l \in Letters : <<"fixed", i, l>> \in F
     THEN CHOOSE l \in Letters : <<"fixed", i, l>> \in F
     ELSE ""]

PresentOf(F) == [i \in Positions |-> {l \in Letters : <<"present", i, l>> \in F}]

AbsentOf(F) == {l \in Letters : <<"absent", 0, l>> \in F}

\* The variables of simulate_game and main, when they are not running.
GameIdle ==
  /\ answer = NoWord /\ answers = <<>> /\ answer_num = 0 /\ rounds = <<>>
  /\ guess1 = NoWord /\ max_rounds = NoRound /\ round = 0
  /\ guess = NoWord /\ guesses = <<>> /\ ret = NoRound
  /\ new_present = EmptyPresent /\ new_absent = {}

GameUnchanged ==
  UNCHANGED <<answer, answers, answer_num, rounds, guess1, max_rounds, round,
              guess, guesses, ret, new_present, new_absent>>

TablesUnchanged == UNCHANGED <<words, freqs, stats, guess_thres>>

\* The variables of the frequency scorer called on its own, when it is not.
ScorerIdle == scored_word = NoWord /\ score = [num |-> 0, den |-> 1]

ScorerUnchanged == UNCHANGED <<scored_word, score>>

(* ---- the candidate filter: get_candidates on any constraints ---- *)

InitFilter ==
  /\ words = AllWordsOrder
  /\ freqs = LetterFreqs(AllWords)
  /\ stats = <<>>
  /\ guess_thres \in {[num |-> 0, den |-> 1]}
  /\ fixed \in FixedSeqs(WordLen)
  /\ present \in PresentSeqs
  /\ absent \in SUBSET Letters
  /\ fixed_addition = EmptyFixed /\ new_fixed = EmptyFixed
  /\ GameIdle /\ ScorerIdle
  /\ result = NoResult /\ err = "none" /\ pc = "call"

GetCandidates ==
  /\ pc = "call"
  /\ result' = [NoResult EXCEPT !.candidates = get_candidates(words, freqs, fixed, present, absent)]
  /\ pc' = "done"
  /\ UNCHANGED <<fixed, present, absent, fixed_addition, new_fixed, err>>
  /\ TablesUnchanged /\ ScorerUnchanged /\ GameUnchanged

SpecFilter == InitFilter /\ [][GetCandidates]_vars

(* ---- the guess selector: choose_words ---- *)

InitChoose ==
  /\ \E F \in FactSets : fixed = FixedOf(F) /\ present = PresentOf(F) /\ absent = AbsentOf(F)
  /\ \E D \in Dictionaries :
       /\ words \in Orders(D)
       /\ freqs = LetterFreqs(D)
       /\ stats \in StatsTables(D)
  /\ guess_thres \in Thresholds
  /\ fixed_addition = EmptyFixed /\ new_fixed = EmptyFixed
  /\ GameIdle /\ ScorerIdle
  /\ result = NoResult /\ err = "none" /\ pc = "call"

ChooseWords ==
  /\ pc = "call"
  /\ result' = choose_words(words, freqs, stats, fixed, present, absent, guess_thres)
  /\ err' = result'.err
  /\ pc' = "done"
  /\ UNCHANGED <<fixed, present, absent, fixed_addition, new_fixed>>
  /\ TablesUnchanged /\ ScorerUnchanged /\ GameUnchanged

SpecChoose == InitChoose /\ [][ChooseWords]_vars

(* ---- merging a fixed delta: add_fixed ---- *)

InitMerge ==
  /\ fixed \in FixedSeqs(WordLen)
  /\ fixed_addition \in FixedSeqs(WordLen) \cup FixedSeqs(WordLen - 1)
  /\ new_fixed = <<>>
  /\ words = <<>> /\ freqs = LetterFreqs(AllWords) /\ stats = <<>>
  /\ guess_thres \in {[num |-> 0, den |-> 1]}
  /\ present = EmptyPresent /\ absent = {}
  /\ GameIdle /\ ScorerIdle
  /\ result = NoResult /\ err = "none" /\ pc = "call"

AddFixed ==
  /\ pc = "call"
  /\ LET r == add_fixed(fixed, fixed_addition)
     IN /\ fixed' = r.fixed_after
        /\ fixed_addition' = r.addition_after
        /\ new_fixed' = r.value
        /\ err' = r.err
  /\ pc' = "done"
  /\ UNCHANGED <<present, absent, result>>
  /\ TablesUnchanged /\ ScorerUnchanged /\ GameUnchanged

SpecMerge == InitMerge /\ [][AddFixed]_vars

(* ---- one game: simulate_game ---- *)

RoundLimits == {NoRound} \cup {Round(n) : n \in 0..MaxRoundLimit}

\* simulate_game after its first lines: nothing known, round 1.
GameStart ==
  /\ fixed = EmptyFixed /\ present = EmptyPresent /\ absent = {}
  /\ round = 1
  /\ guess = NoWord /\ guesses = <<>> /\ ret = NoRound
  /\ fixed_addition = EmptyFixed /\ new_fixed = EmptyFixed
  /\ new_present = EmptyPresent /\ new_absent = {}
  /\ result = NoResult /\ err = "none"

Init ==
  /\ \E D \in Dictionaries :
       /\ words \in Orders(D)
       /\ freqs = LetterFreqs(D)
       /\ stats \in StatsTables(D)
  /\ guess_thres \in Thresholds
  /\ answer \in AllWords
  /\ guess1 \in {NoWord} \cup AllWords
  /\ max_rounds \in RoundLimits
  /\ answers = <<>> /\ answer_num = 0 /\ rounds = <<>>
  /\ GameStart /\ ScorerIdle
  /\ pc = "loop"

MainUnchanged == UNCHANGED <<answer, answers, answer_num, rounds, guess1, max_rounds>>

\* The last lines of simulate_game with round < max_rounds for round <= max_rounds.
ReturnValue_Strict(r) ==
  IF max_rounds.is_none \/ r < max_rounds.value THEN Round(r) ELSE NoRound

\* The value simulate_game returns once its loop is left with round r:
\* the round, or None when it is beyond max_rounds.
ReturnValue(r) ==
  IF max_rounds.is_none \/ r <= max_rounds.value THEN Round(r) ELSE NoRound

\* The test at the end of the loop body taken one round late.
LimitReached_Late(r) == ~max_rounds.is_none /\ r > max_rounds.value + 1

\* The test at the end of the loop body: max_rounds is not None and
\* round > max_rounds.
LimitReached(r) == ~max_rounds.is_none /\ r > max_rounds.value

\* The first guess is the forced one.
ForcedGuess ==
  /\ pc = "loop"
  /\ guess1 # NoWord /\ round = 1
  /\ guess' = guess1
  /\ guesses' = Append(guesses, guess1)
  /\ pc' = "guessed"
  /\ UNCHANGED <<fixed, present, absent, fixed_addition, new_fixed, new_present,
                 new_absent, round, result, ret, err>>
  /\ TablesUnchanged /\ ScorerUnchanged /\ MainUnchanged

\* The guess is choose_word's; its error propagates.
ChooseGuess ==
  /\ pc = "loop"
  /\ ~(guess1 # NoWord /\ round = 1)
  /\ \E r \in {choose_word(words, freqs, stats, fixed, present, absent, guess_thres)} :
       IF r.err # "none"
       THEN /\ err' = r.err
            /\ pc' = "raised"
            /\ UNCHANGED <<guess, guesses>>
       ELSE /\ guess' = r.choice
            /\ guesses' = Append(guesses, r.choice)
            /\ pc' = "guessed"
            /\ UNCHANGED err
  /\ UNCHANGED <<fixed, present, absent, fixed_addition, new_fixed, new_present,
                 new_absent, round, result, ret>>
  /\ TablesUnchanged /\ ScorerUnchanged /\ MainUnchanged

\* guess == answer: the loop is left and the round returned.
Found ==
  /\ pc = "guessed"
  /\ guess = answer
  /\ ret' = ReturnValue(round)
  /\ pc' = "returned"
  /\ UNCHANGED <<fixed, present, absent, fixed_addition, new_fixed, new_present,
                 new_absent, round, guess, guesses, result, err>>
  /\ TablesUnchanged /\ ScorerUnchanged /\ MainUnchanged

\* A wrong guess: simulate_round, the three merges, round += 1, and the test
\* of max_rounds.
Feedback ==
  /\ pc = "guessed"
  /\ guess # answer
  /\ round < RoundCap
  /\ LET d == simulate_round(answer, guess)
         f == add_fixed(fixed, d.fixed)
         p == add_present(present, d.present)
     IN /\ new_fixed' = d.fixed
        /\ new_present' = d.present
        /\ new_absent' = d.absent
        /\ fixed_addition' = d.fixed
        /\ IF f.err # "none" \/ p.err # "none"
           THEN /\ err' = IF f.err # "none" THEN f.err ELSE p.err
                /\ pc' = "raised"
                /\ UNCHANGED <<fixed, present, absent, round, ret>>
           ELSE /\ fixed' = f.value
                /\ present' = p.value
                /\ absent' = absent \cup d.absent
                /\ round' = round + 1
                /\ IF LimitReached(round')
                   THEN pc' = "returned" /\ ret' = ReturnValue(round')
                   ELSE pc' = "loop" /\ UNCHANGED ret
                /\ UNCHANGED err
  /\ UNCHANGED <<guess, guesses, result>>
  /\ TablesUnchanged /\ ScorerUnchanged /\ MainUnchanged

GameStep == ForcedGuess \/ ChooseGuess \/ Found \/ Feedback

Next == GameStep

Spec == Init /\ [][Next]_vars

(* ---- one game without a round limit, run to its end ---- *)

\* Before the call of simulate_game: nothing is read or set yet.
InitUnlimited ==
  /\ words = <<>> /\ freqs = LetterFreqs({}) /\ stats = <<>>
  /\ guess_thres \in {[num |-> 0, den |-> 1]}
  /\ answer = NoWord /\ guess1 = NoWord /\ max_rounds = NoRound
  /\ answers = <<>> /\ answer_num = 0 /\ rounds = <<>>
  /\ fixed = EmptyFixed /\ present = EmptyPresent /\ absent = {}
  /\ round = 0
  /\ guess = NoWord /\ guesses = <<>> /\ ret = NoRound
  /\ fixed_addition = EmptyFixed /\ new_fixed = EmptyFixed
  /\ new_present = EmptyPresent /\ new_absent = {}
  /\ result = NoResult /\ err = "none"
  /\ ScorerIdle
  /\ pc = "start"

\* simulate_game is called without max_rounds, on any tables, answer and
\* first guess, and runs its first lines.
CallGame ==
  /\ pc = "start"
  /\ \E D \in Dictionaries :
       /\ words' \in Orders(D)
       /\ freqs' = LetterFreqs(D)
       /\ stats' \in StatsTables(D)
  /\ guess_thres' \in Thresholds
  /\ answer' \in AllWords
  /\ guess1' \in {NoWord} \cup AllWords
  /\ round' = 1
  /\ pc' = "loop"
  /\ UNCHANGED <<max_rounds, answers, answer_num, rounds, fixed, present, absent,
                 guess, guesses, ret, fixed_addition, new_fixed, new_present,
                 new_absent, result, err>>
  /\ ScorerUnchanged

NextUnlimited == CallGame \/ GameStep

\* simulate_game has a step to take: it is about to guess, or it has guessed
\* and is about to return or to compute the feedback. This is ENABLED GameStep,
\* written as a state predicate.
Running == pc = "loop" \/ (pc = "guessed" /\ (guess = answer \/ round < RoundCap))

\* A step of simulate_game, as far as pc shows it: every step changes pc.
TakeStep == Running /\ pc' \in {"loop", "guessed", "returned", "raised"} /\ pc' # pc

\* The interpreter runs the one thread of the program on: when simulate_game
\* has a step to take, the step is taken. (When it is called is left open.)
FairSpec == InitUnlimited /\ [][NextUnlimited]_vars /\ WF_pc(TakeStep)

(* ---- the frequency scorer: score_letter_freqs ---- *)

\* The longest word given to the frequency scorer on its own.
ScoreLen == WordLen + 1

ScoreWords == UNION {[1..n -> Letters] : n \in 1..ScoreLen}

\* read_letter_freqs: the tables letter -> counts of non-negative integers,
\* index 0 the total of the letter, index p its count at position p.
FreqTables ==
  {[letter \in Letters |->
      [p \in 0..ScoreLen |->
         IF p = 0 THEN t[letter][1] + SumSeq(Tail(t[letter])) ELSE t[letter][p]]] :
     t \in [Letters -> [1..ScoreLen -> 0..MaxCount]]}

InitScore ==
  /\ scored_word \in ScoreWords
  /\ freqs \in FreqTables
  /\ score = [num |-> 0, den |-> 1]
  /\ words = <<>> /\ stats = <<>>
  /\ guess_thres \in {[num |-> 0, den |-> 1]}
  /\ fixed = EmptyFixed /\ present = EmptyPresent /\ absent = {}
  /\ fixed_addition = EmptyFixed /\ new_fixed = EmptyFixed
  /\ GameIdle
  /\ result = NoResult /\ err = "none" /\ pc = "call"

ScoreWord ==
  /\ pc = "call"
  /\ score' = score_letter_freqs(scored_word, freqs)
  /\ pc' = "done"
  /\ UNCHANGED <<scored_word, fixed, present, absent, fixed_addition, new_fixed, result, err>>
  /\ TablesUnchanged /\ GameUnchanged

SpecScore == InitScore /\ [][ScoreWord]_vars

(* ---- one game on any guesses ---- *)

\* simulate_game without guess1 and max_rounds, on a table where every word
\* has the same statistic.
InitRounds ==
  /\ \E D \in Dictionaries :
       /\ words \in Orders(D)
       /\ freqs = LetterFreqs(D)
       /\ stats \in [D -> {MaxStat}]
  /\ guess_thres \in Thresholds
  /\ answer \in AllWords
  /\ guess1 = NoWord
  /\ max_rounds = NoRound
  /\ answers = <<>> /\ answer_num = 0 /\ rounds = <<>>
  /\ GameStart /\ ScorerIdle
  /\ pc = "loop"

\* The guess of the round is given from outside, as guess1 is in round 1: any
\* word of the answer's length, in each of the first MaxGiven rounds.
AnyGuess ==
  /\ pc = "loop"
  /\ Len(guesses) < MaxGiven
  /\ \E g \in AllWords :
       /\ guess' = g
       /\ guesses' = Append(guesses, g)
  /\ pc' = "guessed"
  /\ UNCHANGED <<fixed, present, absent, fixed_addition, new_fixed, new_present,
                 new_absent, round, result, ret, err>>
  /\ TablesUnchanged /\ ScorerUnchanged /\ MainUnchanged

NextRounds == AnyGuess \/ ChooseGuess \/ Found \/ Feedback

SpecRounds == InitRounds /\ [][NextRounds]_vars

(* ---- the batch run: main ---- *)

\* The answers main is given: words of the list and one word outside it.
AnswerPool(D) == D \cup {[p \in Positions |-> LetterOrder[2]]}

AnswerLists(D) ==
  {s \in UNION {[1..n -> AnswerPool(D)] : n \in 1..MaxAnswers} :
     \A i, j \in 1..Len(s) : i # j => s[i] # s[j]}

\* main with its tables read and its answers listed. One answer is played
\* without guess1; no caller gives max_rounds.
InitBatch ==
  /\ \E D \in Dictionaries :
       /\ words \in Orders(D)
       /\ freqs = LetterFreqs(D)
       /\ stats \in StatsTables(D)
       /\ answers \in AnswerLists(D)
       /\ guess1 \in {NoWord} \cup D
  /\ guess_thres \in Thresholds
  /\ Len(answers) = 1 => guess1 = NoWord
  /\ max_rounds = NoRound
  /\ answer = NoWord /\ answer_num = 0 /\ rounds = <<>>
  /\ GameStart /\ ScorerIdle
  /\ pc = "main"

\* main calls simulate_game on the next answer.
StartGame ==
  /\ pc = "main"
  /\ answer_num < Len(answers)
  /\ answer_num' = answer_num + 1
  /\ answer' = answers[answer_num + 1]
  /\ fixed' = EmptyFixed /\ present' = EmptyPresent /\ absent' = {}
  /\ round' = 1
  /\ guess' = NoWord /\ guesses' = <<>>
  /\ pc' = "loop"
  /\ UNCHANGED <<answers, rounds, guess1, max_rounds, fixed_addition, new_fixed,
                 new_present, new_absent, result, ret, err>>
  /\ TablesUnchanged /\ ScorerUnchanged

\* simulate_game has returned: rounds[round] += 1 in the loop over several
\* answers; the value is dropped when there is one answer.
RecordGame ==
  /\ pc = "returned"
  /\ rounds' = IF Len(answers) = 1 THEN rounds
               ELSE [k \in DOMAIN rounds \cup {ret} |->
                       IF k \in DOMAIN rounds
                       THEN (IF k = ret THEN rounds[k] + 1 ELSE rounds[k])
                       ELSE 1]
  /\ pc' = "main"
  /\ UNCHANGED <<answer, answers, answer_num, guess1, max_rounds, fixed, present,
                 absent, fixed_addition, new_fixed, new_present, new_absent, round,
                 guess, guesses, result, ret, err>>
  /\ TablesUnchanged /\ ScorerUnchanged

\* Every answer is played: main reports and ends.
Finish ==
  /\ pc = "main"
  /\ answer_num = Len(answers)
  /\ pc' = "done"
  /\ UNCHANGED <<answer, answers, answer_num, rounds, guess1, max_rounds, fixed,
                 present, absent, fixed_addition, new_fixed, new_present, new_absent,
                 round, guess, guesses, result, ret, err>>
  /\ TablesUnchanged /\ ScorerUnchanged

\* The exception leaves simulate_game and is handled as if the game had
\* returned None.
Abort_Continue ==
  /\ pc = "raised"
  /\ pc' = "returned"
  /\ ret' = NoRound
  /\ UNCHANGED <<answer, answers, answer_num, rounds, guess1, max_rounds, fixed,
                 present, absent, fixed_addition, new_fixed, new_present, new_absent,
                 round, guess, guesses, result, err>>
  /\ TablesUnchanged /\ ScorerUnchanged

\* The exception leaves simulate_game; main has no handler around the call,
\* so it leaves main too and the run ends there.
Abort ==
  /\ pc = "raised"
  /\ pc' = "aborted"
  /\ UNCHANGED <<answer, answers, answer_num, rounds, guess1, max_rounds, fixed,
                 present, absent, fixed_addition, new_fixed, new_present, new_absent,
                 round, guess, guesses, result, ret, err>>
  /\ TablesUnchanged /\ ScorerUnchanged

NextBatch == StartGame \/ GameStep \/ RecordGame \/ Finish \/ Abort

SpecBatch == InitBatch /\ [][NextBatch]_vars

(***************************************************************************)
(* Properties                                                              *)
(***************************************************************************)

Range(s) == {s[i] : i \in 1..Len(s)}

WordLetters(w) == {w[i] : i \in 1..Len(w)}

\* The four rules of the candidate filter, for constraints (f, p, a).
Rule1(w, f) == \A i \in Positions : f[i] \in Letters => w[i] = f[i]

Rule2(w, p) == \A i \in Positions : w[i] \notin p[i]

Rule3(w, p) == \A i \in Positions : p[i] \subseteq WordLetters(w)

Rule4(w, a) == a \cap WordLetters(w) = {}

Accepted(w, f, p, a) == Rule1(w, f) /\ Rule2(w, p) /\ Rule3(w, p) /\ Rule4(w, a)

\* The words of the table that satisfy the current constraints.
Fitting == {w \in Range(words) : Accepted(w, fixed, present, absent)}

\* C1: get_candidates returns exactly the words of the table that satisfy
\* all four filter rules: every such word once, and no other word.
C1_FilterExact ==
  pc = "done" =>
    /\ \A w \in Range(words) : (w \in Range(result.candidates)) <=> Accepted(w, fixed, present, absent)
    /\ Range(result.candidates) \subseteq Range(words)
    /\ Len(result.candidates) = Cardinality(Range(result.candidates))

\* A run of the filter that accepts a word and rejects three others, each
\* for one rule alone (the excluded place, the missing present letter, the
\* absent letter).
C1_Witness ==
  /\ pc = "done"
  /\ result.candidates # <<>>
  /\ \E w \in Range(words) :
       Rule1(w, fixed) /\ ~Rule2(w, present) /\ Rule3(w, present) /\ Rule4(w, absent)
  /\ \E w \in Range(words) :
       Rule1(w, fixed) /\ Rule2(w, present) /\ ~Rule3(w, present) /\ Rule4(w, absent)
  /\ \E w \in Range(words) :
       Rule1(w, fixed) /\ Rule2(w, present) /\ Rule3(w, present) /\ ~Rule4(w, absent)

\* The raw statistic of a word, and the total over the candidates returned.
Raw(w) == IF w \in DOMAIN stats THEN stats[w] ELSE 0

RawTotal == SumSeq([i \in 1..Len(result.candidates) |-> Raw(result.candidates[i])])

\* The place in the candidate list of the first candidate of maximal
\* likelihood score (with a total of 0 every score is 0: the first place).
BestPlace ==
  CHOOSE i \in 1..Len(result.candidates) :
    /\ \A j \in 1..Len(result.candidates) : Raw(result.candidates[j]) <= Raw(result.candidates[i])
    /\ \A j \in 1..(i - 1) : Raw(result.candidates[j]) < Raw(result.candidates[i])

\* The maximal likelihood score is >= the threshold.
Confident ==
  IF RawTotal = 0
  THEN guess_thres.num <= 0
  ELSE Raw(result.candidates[BestPlace]) * guess_thres.den >= guess_thres.num * RawTotal

\* The exploration path's pick: the first new candidate, else the first candidate.
ExplorationPick ==
  IF result.excluders # <<>> THEN result.excluders[1] ELSE result.candidates[1]

\* C2: with candidates, choose_words picks the first candidate of maximal
\* likelihood score when that score is >= the threshold; when it is below
\* the threshold the pick is the exploration path's, whatever the scores.
C2_CommitsToBestGuess ==
  (pc = "done" /\ result.err = "none") =>
    /\ Confident => result.choice = result.candidates[BestPlace]
    /\ ~Confident => result.choice = ExplorationPick

\* A commit decided by a tie: two candidates share the maximal score, a third
\* scores less, and the first of the two is picked.
C2_Witness ==
  /\ pc = "done" /\ result.err = "none"
  /\ Confident /\ RawTotal > 0
  /\ \E j \in 1..Len(result.candidates) :
       j > BestPlace /\ Raw(result.candidates[j]) = Raw(result.candidates[BestPlace])
  /\ \E j \in 1..Len(result.candidates) :
       Raw(result.candidates[j]) < Raw(result.candidates[BestPlace])
  /\ result.choice = result.candidates[BestPlace]

\* The frequency score of w is at least that of v: S(w)/10^r(w) >= S(v)/10^r(v),
\* r the number of letter occurrences beyond the first of each letter.
PositionSum(w) == SumSeq([p \in 1..Len(w) |-> freqs[w[p]][p]])

Repeats(w) == Len(w) - Cardinality(WordLetters(w))

FreqAtLeast(w, v) ==
  PositionSum(w) * Pow10(Repeats(v)) >= PositionSum(v) * Pow10(Repeats(w))

\* The words of the table made of letters not known so far: the filter under
\* the exploration constraints.
Known == absent \cup FixedLetters(fixed) \cup PresentLetters(present)

Exploring == {w \in Range(words) : Accepted(w, EmptyFixed, EmptyPresent, Known)}

\* C3: when choose_words does not commit to an answer guess, its pick is a
\* word of maximal frequency score among the exploration words, or, when
\* there is none, among the candidates.
C3_ExplorationGuess ==
  (pc = "done" /\ result.err = "none" /\ ~Confident) =>
    IF Exploring # {}
    THEN result.choice \in Exploring /\ \A v \in Exploring : FreqAtLeast(result.choice, v)
    ELSE result.choice \in Fitting /\ \A v \in Fitting : FreqAtLeast(result.choice, v)

\* The shortcut of get_new_candidates taken with a non-empty absent set that
\* rejects a word of the table, and no commit.
C3_Witness ==
  /\ pc = "done" /\ result.err = "none" /\ ~Confident
  /\ fixed = EmptyFixed /\ present = EmptyPresent /\ absent # {}
  /\ Exploring # {} /\ Exploring # Range(words)
  /\ result.choice \in Exploring

\* C4: choose_words raises the no-candidates error exactly when no word of
\* the table satisfies the constraints; otherwise it raises nothing and its
\* pick is a word of the table.
C4_NoCandidatesError ==
  pc = "done" =>
    /\ result.err = "no_candidates" <=> Fitting = {}
    /\ Fitting # {} => (result.err = "none" /\ result.choice \in Range(words))
    /\ result.err \in {"none", "no_candidates"}

\* The error raised although the exploration words are not all gone.
C4_Witness ==
  /\ pc = "done" /\ result.err = "no_candidates"
  /\ Fitting = {} /\ Exploring # {}

\* The deltas held are those of the current guess: a wrong guess that
\* simulate_round has been called on.
FedBack == pc # "guessed" /\ guess # NoWord /\ guess # answer

Green(i) == guess[i] = answer[i] /\ new_fixed[i] = guess[i]

Yellow(i) ==
  guess[i] # answer[i] /\ guess[i] \in WordLetters(answer) /\ guess[i] \in new_present[i]

Gray(i) == guess[i] \notin WordLetters(answer) /\ guess[i] \in new_absent

\* C5: simulate_round marks each position of the guess green, yellow or gray,
\* exactly one of the three, and its deltas hold nothing else.
C5_FeedbackDeltas ==
  FedBack =>
    /\ \A i \in Positions :
         /\ Green(i) \/ Yellow(i) \/ Gray(i)
         /\ ~(Green(i) /\ Yellow(i)) /\ ~(Green(i) /\ Gray(i)) /\ ~(Yellow(i) /\ Gray(i))
         /\ new_fixed[i] = (IF guess[i] = answer[i] THEN guess[i] ELSE "")
         /\ new_present[i] \subseteq {guess[i]}
         /\ new_present[i] # {} => Yellow(i)
    /\ new_absent \subseteq WordLetters(guess)
    /\ \A l \in new_absent : \E i \in Positions : guess[i] = l /\ Gray(i)

\* Feedback with a yellow and a gray letter.
C5_Witness ==
  /\ FedBack
  /\ \E i, j \in Positions : Yellow(i) /\ Gray(j)

\* The delta names a letter at a position fixed to another letter.
Conflict(f, d) == \E i \in 1..Len(d) : d[i] # "" /\ f[i] # "" /\ d[i] # f[i]

\* C6: add_fixed leaves its two arguments as they were; for sequences of one
\* length it raises the conflict error exactly when the delta names a letter
\* at a position fixed to another letter, and else returns the fixed
\* sequence with its unknown positions set to the delta's.
C6_AddFixedMerge ==
  [][pc = "call" =>
       /\ fixed' = fixed
       /\ fixed_addition' = fixed_addition
       /\ IF Len(fixed) # Len(fixed_addition)
          THEN err' = "length"
          ELSE /\ err' = "conflict" <=> Conflict(fixed, fixed_addition)
               /\ ~Conflict(fixed, fixed_addition) =>
                    /\ err' = "none"
                    /\ Len(new_fixed') = Len(fixed)
                    /\ \A i \in 1..Len(fixed) :
                         new_fixed'[i] = (IF fixed[i] = "" THEN fixed_addition[i] ELSE fixed[i])]_vars

\* A conflict at the last position, after an earlier position of the delta
\* was new: the error is raised and fixed still has its unknown position.
C6_Witness ==
  /\ pc = "done" /\ err = "conflict"
  /\ Len(fixed) = Len(fixed_addition)
  /\ fixed[1] = "" /\ fixed_addition[1] # ""
  /\ fixed[WordLen] # "" /\ fixed_addition[WordLen] # "" /\ fixed[WordLen] # fixed_addition[WordLen]

\* The guesses before the k-th are wrong and the k-th is the answer.
FirstHitAt(k) ==
  /\ k \in 1..Len(guesses)
  /\ guesses[k] = answer
  /\ \A j \in 1..(k - 1) : guesses[j] # answer

\* The first n guesses were made and all differ from the answer.
FirstWrong(n) == Len(guesses) >= n /\ \A j \in 1..n : guesses[j] # answer

\* The claim C7 as stated: with max_rounds = N a round count k is returned
\* only if the k-th guess is the first equal to the answer and k <= N; N
\* wrong guesses end the game with None; never more than N guesses.
C7_Original ==
  ~max_rounds.is_none =>
    /\ (pc = "returned" /\ ~ret.is_none) =>
         (FirstHitAt(ret.value) /\ Len(guesses) = ret.value /\ ret.value <= max_rounds.value)
    /\ (pc = "returned" /\ FirstWrong(max_rounds.value)) => ret.is_none
    /\ Len(guesses) <= max_rounds.value

Max(a, b) == IF a >= b THEN a ELSE b

\* C7 (amended): as stated, but the number of guesses is at most max(N, 1):
\* the first guess is made whatever N is. After N >= 1 wrong guesses the
\* game has returned None.
C7_MaxRounds ==
  ~max_rounds.is_none =>
    /\ (pc = "returned" /\ ~ret.is_none) =>
         (FirstHitAt(ret.value) /\ Len(guesses) = ret.value /\ ret.value <= max_rounds.value)
    /\ (pc = "returned" /\ FirstWrong(max_rounds.value)) => ret.is_none
    /\ Len(guesses) <= Max(max_rounds.value, 1)
    /\ (max_rounds.value >= 1 /\ Len(guesses) = max_rounds.value
          /\ FirstWrong(max_rounds.value) /\ pc # "guessed") =>
         (pc = "returned" /\ ret.is_none)

\* A game given up: max_rounds >= 2 wrong guesses, None returned.
C7_Witness ==
  /\ pc = "returned" /\ ~max_rounds.is_none /\ ret.is_none
  /\ max_rounds.value >= 2
  /\ Len(guesses) = max_rounds.value /\ FirstWrong(max_rounds.value)

\* The claim C8 as stated: a forced first guess equal to the answer makes
\* simulate_game return 1, with no feedback computed and nothing merged.
C8_Original ==
  (guess1 # NoWord /\ guess1 = answer) =>
    /\ pc \in {"loop", "guessed", "returned"}
    /\ pc = "returned" =>
         /\ ret = Round(1)
         /\ guesses = <<guess1>>
         /\ fixed = EmptyFixed /\ present = EmptyPresent /\ absent = {}

\* C8 (amended): the same when max_rounds is None or >= 1; with
\* max_rounds = 0 the game returns None.
C8_ForcedAnswer ==
  (guess1 # NoWord /\ guess1 = answer) =>
    /\ pc \in {"loop", "guessed", "returned"}
    /\ pc = "returned" =>
         /\ ret = (IF max_rounds.is_none \/ max_rounds.value >= 1 THEN Round(1) ELSE NoRound)
         /\ guesses = <<guess1>>
         /\ fixed = EmptyFixed /\ present = EmptyPresent /\ absent = {}

\* The forced answer returned as round 1 under a round limit of 1.
C8_Witness ==
  /\ pc = "returned" /\ guess1 # NoWord /\ guess1 = answer
  /\ max_rounds = Round(1) /\ ret = Round(1)

RECURSIVE SumCounts(_, _)
SumCounts(f, S) ==
  IF S = {} THEN 0
  ELSE LET k == CHOOSE x \in S : TRUE IN f[k] + SumCounts(f, S \ {k})

\* The games main has counted in rounds.
Counted == SumCounts(rounds, DOMAIN rounds)

\* The claim C9 as stated: the no-candidates error of the guess selector does
\* not leave simulate_game; the game counts as unsolved and the run goes on.
C9_Original ==
  err = "no_candidates" => pc \notin {"raised", "aborted"}

\* C9 (amended): the no-candidates error leaves simulate_game and main: the
\* run ends there, the game is not counted and no later answer is played.
C9_ErrorAbortsRun ==
  /\ err = "no_candidates" => pc \in {"raised", "aborted"}
  /\ pc = "aborted" =>
       /\ err = "no_candidates"
       /\ ~ENABLED NextBatch
       /\ Counted = (IF Len(answers) > 1 THEN answer_num - 1 ELSE 0)

\* The run aborted in its first game with an answer left unplayed.
C9_Witness ==
  /\ pc = "aborted" /\ err = "no_candidates"
  /\ answer_num = 1 /\ Len(answers) > 1
  /\ Counted = 0

\* Positions i, j of the guess hold one letter, in place at i and not at j.
RepeatedPlaced(i, j) == guess[i] = guess[j] /\ guess[i] = answer[i] /\ guess[j] # answer[j]

\* The claim C10 as stated: the occurrence out of place is marked gray.
C10_Original ==
  FedBack =>
    \A i, j \in Positions : RepeatedPlaced(i, j) =>
      (guess[j] \in new_absent /\ guess[j] \notin new_present[j])

\* C10 (amended): the occurrence out of place is marked yellow (the letter
\* is in the answer), and the letter is not in the absent delta.
C10_RepeatedLetterYellow ==
  FedBack =>
    \A i, j \in Positions : RepeatedPlaced(i, j) =>
      (guess[j] \in new_present[j] /\ guess[j] \notin new_absent)

\* Feedback on a guess with a letter in place and the same letter out of place.
C10_Witness ==
  /\ FedBack
  /\ \E i, j \in Positions : RepeatedPlaced(i, j) /\ new_fixed[i] = guess[i]

\* C11: in every state of a game, whatever the guesses were, no letter fixed
\* at a position is in absent and no letter of any present[i] is in absent
\* (the fixed and the present letters are letters of the answer, the absent
\* ones are not).
C11_KnownLettersNotAbsent ==
  /\ FixedLetters(fixed) \cap absent = {}
  /\ PresentLetters(present) \cap absent = {}
  /\ FixedLetters(fixed) \cup PresentLetters(present) \subseteq WordLetters(answer)
  /\ absent \cap WordLetters(answer) = {}

\* Two wrong guesses merged, with a fixed, a present and an absent letter
\* known, and the second guess repeating a letter the first one had placed.
C11_Witness ==
  /\ pc = "loop" /\ Len(guesses) >= 2
  /\ FixedLetters(fixed) # {} /\ PresentLetters(present) # {} /\ absent # {}
  /\ \E i, j \in Positions :
       i # j /\ guesses[2][i] = guesses[2][j] /\ guesses[2][i] = answer[i]

\* The positional sum of the scored word, as a score.
WordSum == [num |-> PositionSum(scored_word), den |-> 1]

\* The claim C12 as stated: the score of a word with a repeated letter is
\* strictly lower than its positional sum, for every table of non-negative
\* counts.
C12_Original ==
  (pc = "done" /\ Repeats(scored_word) >= 1) => FracGt(WordSum, score)

\* C12 (amended): the score of a word with r >= 1 repeated letters is its
\* positional sum S over 10^r: strictly lower than S when S > 0, and equal
\* to S, both 0, when S = 0.
C12_RepeatPenalty ==
  (pc = "done" /\ Repeats(scored_word) >= 1) =>
    /\ score.num = PositionSum(scored_word) /\ score.den = Pow10(Repeats(scored_word))
    /\ PositionSum(scored_word) > 0 => FracGt(WordSum, score)
    /\ PositionSum(scored_word) = 0 => (score.num = 0 /\ ~FracGt(WordSum, score))

\* A word of two repeats scored on a table that counts one of its places 0
\* and another not.
C12_Witness ==
  /\ pc = "done" /\ Repeats(scored_word) >= 2
  /\ PositionSum(scored_word) > 0
  /\ \E p \in 1..Len(scored_word) : freqs[scored_word[p]][p] = 0
  /\ FracGt(WordSum, score)

\* The guesses whose feedback is merged into the constraints.
Merged == {j \in 1..Len(guesses) : j < round}

\* The game has returned the round of its last guess, the first guess equal
\* to the answer.
Solved ==
  /\ pc = "returned"
  /\ guess = answer
  /\ FirstHitAt(Len(guesses))
  /\ ret = Round(Len(guesses)) /\ round = Len(guesses)

\* C13: without max_rounds, a game on an answer of the word table ends: a
\* guess equals the answer and its round number is returned. On the way every
\* wrong guess, once merged, is outside the candidates and the exploration
\* words, and no word is guessed twice.
C13_GameTerminates ==
  /\ [](\A j \in Merged : guesses[j] \notin Fitting /\ guesses[j] \notin Exploring)
  /\ [](\A j, k \in 1..Len(guesses) : j # k => guesses[j] # guesses[k])
  /\ [](answer \in Range(words) => pc \in {"loop", "guessed", "returned"})
  /\ (pc = "loop" /\ answer \in Range(words)) ~> Solved

\* A game solved by the selector alone in its third round.
C13_Witness ==
  /\ Solved /\ answer \in Range(words)
  /\ guess1 = NoWord /\ Len(guesses) >= 3

\* C14: in every round, whatever the guesses were, the answer passes
\* is_candidate under the accumulated constraints; so merging the feedback
\* never raises the conflict (or the length) error, and when the answer is in
\* the word table the candidates are never empty: no no-candidates error.
C14_AnswerStaysCandidate ==
  /\ is_candidate(answer, fixed, present, absent)
  /\ err \notin {"conflict", "length"}
  /\ answer \in Range(words) =>
       /\ err = "none" /\ pc # "raised"
       /\ answer \in Fitting

\* The third round of a game on an answer of the table, after two wrong
\* guesses given from outside: the second placed a letter where the first had
\* placed it (merged into a position already fixed) and had a letter of the
\* answer out of place; the selector has made its guess.
C14_Witness ==
  /\ pc = "guessed" /\ Len(guesses) = 3 /\ round = 3
  /\ answer \in Range(words)
  /\ \E i, j \in Positions :
       /\ guesses[1][i] = answer[i] /\ guesses[2][i] = answer[i]
       /\ guesses[2][j] # answer[j] /\ guesses[2][j] \in WordLetters(answer)
  /\ is_candidate(answer, fixed, present, absent)

====
